---- MODULE Spec2Model ----
(***************************************************************************)
(* State-machine model of the grindery-delight-api orders routes           *)
(* (src/unnamed/part_002) and webhook routes (src/src/test/hooks.mjs),     *)
(* with the request validators of src/src/validators/offers.validator.js.  *)
(* The document store is two collections, orders and offers, each a        *)
(* sequence of documents in natural (insertion) order.                     *)
(***************************************************************************)
EXTENDS Integers, Sequences, FiniteSets, TLC

VARIABLES orders, offers, dispatched, nextId, nreq, idle, last, inflight,
          blockchains

vars ==
  <<orders, offers, dispatched, nextId, nreq, idle, last, inflight,
    blockchains>>

(***************************************************************************)
(* Bounds of the model: the requests of a run that change a collection,    *)
(* the requests of a run that change none, the orders inserted and the     *)
(* notifications dispatched.                                               *)
(***************************************************************************)
MaxReq == 4
MaxIdle == 1
MaxOrders == 2
MaxDispatch == 2
\* The blockchains inserted in a run of the blockchain routes.
MaxChains == 3

(***************************************************************************)
(* JavaScript values.  A value is a string; the two non-string values a    *)
(* JSON body can carry here are a missing key (undefined) and a number.    *)
(***************************************************************************)
Absent == "#undefined"
Null == "#null"
NumVal == "#1234"

IsString(v) == v \notin {Absent, Null, NumVal}
\* express-validator stringifies the value first: undefined and null give ''.
ToStr(v) == IF v \in {Absent, Null} THEN "" ELSE v

(***************************************************************************)
(* Identities.  A user id is a sequence of characters so that the          *)
(* case-insensitive regular-expression match of the queries can be         *)
(* computed.                                                               *)
(***************************************************************************)
Users == {<<"a">>, <<"A">>, <<"a", "b">>}

Lower(c) == IF c = "A" THEN "a" ELSE IF c = "B" THEN "b" ELSE c

LowerSeq(s) == [i \in 1..Len(s) |-> Lower(s[i])]

\* { $regex: pattern, $options: 'i' }: the pattern occurs somewhere in s,
\* letter case ignored (the pattern is not anchored).
RegexMatchI(pattern, s) ==
  \E i \in 0..(Len(s) - Len(pattern)) :
    SubSeq(LowerSeq(s), i + 1, i + Len(pattern)) = LowerSeq(pattern)

(***************************************************************************)
(* ORDER_STATUS of utils/orders-utils.js.                                  *)
(***************************************************************************)
PENDING == "pending"
SUCCESS == "success"
FAILURE == "failure"
COMPLETION == "completion"
COMPLETION_FAILURE == "completionFailure"

(***************************************************************************)
(* Validation errors: {location, param, msg}.  msg is a tuple of text      *)
(* fragments.                                                              *)
(***************************************************************************)
Err(loc, param, msg) == [location |-> loc, param |-> param, msg |-> msg]

\* .isString().withMessage('must be string value')
isString(loc, f, v) ==
  IF IsString(v) THEN <<>> ELSE <<Err(loc, f, <<"must be string value">>)>>

\* .notEmpty().withMessage('must not be empty')
notEmpty(loc, f, v) ==
  IF ToStr(v) # "" THEN <<>> ELSE <<Err(loc, f, <<"must not be empty">>)>>

\* Mutant of isStringNotEmpty: the chain stops at its first failure.
isStringNotEmptyBail(loc, f, v) ==
  IF isString(loc, f, v) # <<>> THEN isString(loc, f, v)
  ELSE notEmpty(loc, f, v)

\* .isString()...notEmpty()...: both checks run, each reports on its own.
isStringNotEmpty(loc, f, v) == isString(loc, f, v) \o notEmpty(loc, f, v)

\* keys.join(', '): the keys with a separator between each two.
RECURSIVE Join(_)
Join(keys) ==
  IF Len(keys) <= 1 THEN keys
  ELSE <<Head(keys), ", ">> \o Join(Tail(keys))

\* Mutant of validateFields: one error for each key outside the allow-list.
validateFieldsEach(keys, allowed, section) ==
  LET extra == SelectSeq(keys, LAMBDA k : k \notin allowed)
  IN  [i \in 1..Len(extra) |->
         Err(section, "",
             <<"The following fields are not allowed in ", section, ": ",
               extra[i]>>)]

\* validateFields(section, allowed, name) of utils/validators-utils.js:
\* the keys of the section outside the allow-list are reported in one error.
validateFields(keys, allowed, section) ==
  LET extra == SelectSeq(keys, LAMBDA k : k \notin allowed)
  IN  IF extra = <<>> THEN <<>>
      ELSE <<Err(section, "",
                 <<"The following fields are not allowed in ", section, ": ">>
                 \o Join(extra))>>

\* The keys a JSON object carries: those whose value is not undefined.
KeysOf(obj, names) == SelectSeq(names, LAMBDA k : obj[k] # Absent)

CreateBodyKeys ==
  <<"status", "orderId", "amountTokenDeposit", "addressTokenDeposit",
    "chainIdTokenDeposit", "destAddr", "amountTokenOffer", "offerId", "hash",
    "userId", "foo">>

CreateAllowed ==
  {"status", "orderId", "amountTokenDeposit", "addressTokenDeposit",
   "chainIdTokenDeposit", "destAddr", "amountTokenOffer", "offerId", "hash"}

\* body('status').matches(/^(pending|success|failure)$/)
statusMatches(v) ==
  IF ToStr(v) \in {"pending", "success", "failure"} THEN <<>>
  ELSE <<Err("body", "status",
             <<"must be one of \"pending\", \"success\" or \"failure\"">>)>>

\* Mutant of createOrderValidator: the allow-list chains are declared first.
createOrderValidatorAllowFirst(body, qkeys) ==
  validateFields(KeysOf(body, CreateBodyKeys), CreateAllowed, "body")
  \o validateFields(qkeys, {}, "query")
  \o validateFields(<<>>, {}, "params")
  \o statusMatches(body.status)
  \o isString("body", "orderId", body.orderId)
  \o isStringNotEmpty("body", "amountTokenDeposit", body.amountTokenDeposit)
  \o isStringNotEmpty("body", "addressTokenDeposit", body.addressTokenDeposit)
  \o isStringNotEmpty("body", "chainIdTokenDeposit", body.chainIdTokenDeposit)
  \o isStringNotEmpty("body", "destAddr", body.destAddr)
  \o isStringNotEmpty("body", "amountTokenOffer", body.amountTokenOffer)
  \o isStringNotEmpty("body", "offerId", body.offerId)
  \o isStringNotEmpty("body", "hash", body.hash)

createOrderValidator(body, qkeys) ==
  statusMatches(body.status)
  \o isString("body", "orderId", body.orderId)
  \o isStringNotEmpty("body", "amountTokenDeposit", body.amountTokenDeposit)
  \o isStringNotEmpty("body", "addressTokenDeposit", body.addressTokenDeposit)
  \o isStringNotEmpty("body", "chainIdTokenDeposit", body.chainIdTokenDeposit)
  \o isStringNotEmpty("body", "destAddr", body.destAddr)
  \o isStringNotEmpty("body", "amountTokenOffer", body.amountTokenOffer)
  \o isStringNotEmpty("body", "offerId", body.offerId)
  \o isStringNotEmpty("body", "hash", body.hash)
  \o validateFields(KeysOf(body, CreateBodyKeys), CreateAllowed, "body")
  \o validateFields(qkeys, {}, "query")
  \o validateFields(<<>>, {}, "params")

setOrderCompleteValidator(body, qkeys) ==
  isStringNotEmpty("body", "orderId", body.orderId)
  \o validateFields(KeysOf(body, <<"orderId", "completionHash">>),
                    {"orderId"}, "body")
  \o validateFields(qkeys, {}, "query")
  \o validateFields(<<>>, {}, "params")

deleteOrderValidator(orderId) == isStringNotEmpty("params", "orderId", orderId)

\* validationResult(req): the errors the validators of the route collected.
validateResult(errors) == IF errors # <<>> THEN errors ELSE <<>>

(***************************************************************************)
(* The document store.                                                     *)
(***************************************************************************)
\* The documents of a collection.
Docs(coll) == {coll[i] : i \in 1..Len(coll)}

\* findOne(filter): the first document, in natural order, among hits, the
\* documents that pass the filter; 0 stands for null.
findOne(coll, hits) ==
  IF \E i \in 1..Len(coll) : coll[i] \in hits
  THEN CHOOSE i \in 1..Len(coll) :
         coll[i] \in hits /\ \A j \in 1..(i - 1) : coll[j] \notin hits
  ELSE 0

\* null, as findOne returns it.
NoDoc == [_id |-> 0]

DocAt(coll, i) == IF i = 0 THEN NoDoc ELSE coll[i]

\* A whole document used as a filter: every field, _id included, must be equal.
SameDoc(filter, d) == filter._id = d._id /\ filter = d

\* Mutant of updateOne: the filter is the _id of the document read, and a
\* matched document counts as modified.
updateOneById(coll, filter, updated) ==
  IF filter._id = 0
  THEN [coll |-> coll, threw |-> TRUE, matchedCount |-> 0, modifiedCount |-> 0]
  ELSE LET i == findOne(coll, {d \in Docs(coll) : d._id = filter._id})
       IN  IF i = 0
           THEN [coll |-> coll, threw |-> FALSE,
                 matchedCount |-> 0, modifiedCount |-> 0]
           ELSE [coll |-> [coll EXCEPT ![i] = updated], threw |-> FALSE,
                 matchedCount |-> 1, modifiedCount |-> 1]

\* Mutant of updateOne: with nothing matched the document is inserted, as
\* with the option upsert.
updateOneUpsert(coll, filter, updated) ==
  IF filter._id = 0
  THEN [coll |-> coll, threw |-> TRUE, matchedCount |-> 0, modifiedCount |-> 0]
  ELSE LET i == findOne(coll, {d \in Docs(coll) : SameDoc(filter, d)})
       IN  IF i = 0
           THEN [coll |-> Append(coll, updated), threw |-> FALSE,
                 matchedCount |-> 0, modifiedCount |-> 0]
           ELSE [coll |-> [coll EXCEPT ![i] = updated], threw |-> FALSE,
                 matchedCount |-> 1,
                 modifiedCount |-> IF updated = coll[i] THEN 0 ELSE 1]

\* updateOne(filter, {$set: ...}) with a previously read document as filter.
\* A null filter is refused by the driver before any command is sent.  The
\* first document equal to the filter is rewritten by Set; modifiedCount tells
\* whether that changed it.
updateOne(coll, filter, updated) ==
  IF filter._id = 0
  THEN [coll |-> coll, threw |-> TRUE, matchedCount |-> 0, modifiedCount |-> 0]
  ELSE LET i == findOne(coll, {d \in Docs(coll) : SameDoc(filter, d)})
       IN  IF i = 0
           THEN [coll |-> coll, threw |-> FALSE,
                 matchedCount |-> 0, modifiedCount |-> 0]
           ELSE [coll |-> [coll EXCEPT ![i] = updated], threw |-> FALSE,
                 matchedCount |-> 1,
                 modifiedCount |-> IF updated = coll[i] THEN 0 ELSE 1]

\* deleteOne(filter) with a previously read document as filter.
deleteOne(coll, filter) ==
  LET i == findOne(coll, {d \in Docs(coll) : SameDoc(filter, d)})
  IN  IF i = 0 THEN coll
      ELSE SubSeq(coll, 1, i - 1) \o SubSeq(coll, i + 1, Len(coll))

\* Mutant of insertOne: the collection has a unique index on orderId and a
\* document whose orderId is stored already is not inserted.
insertOneUnique(coll, doc) ==
  IF \E i \in 1..Len(coll) : coll[i].orderId = doc.orderId THEN coll
  ELSE Append(coll, doc)

\* insertOne(doc): the store appends the document.
insertOne(coll, doc) == Append(coll, doc)

\* The driver serialises an undefined value of an update as null.
Bson(v) == IF v = Absent THEN Null ELSE v

(***************************************************************************)
(* What a request did: the response (first status and body sent), the      *)
(* number of times a send was attempted, the store calls issued in order,  *)
(* the _id of the document the lookup returned, whether the handler ended  *)
(* by an exception, the notifications it dispatched and, for a read, the   *)
(* orders and the count it returned.                                       *)
(***************************************************************************)
NoArgs == [none |-> TRUE]

NoResult == [orders |-> <<>>, totalCount |-> 0]

Resp(op, caller, args) ==
  [op |-> op, auth |-> TRUE, caller |-> caller, args |-> args, pc |-> "done",
   status |-> 200, msg |-> "", errors |-> <<>>, modified |-> 0,
   sends |-> 1, calls |-> <<>>, found |-> 0, threw |-> FALSE, notified |-> 0,
   result |-> NoResult]

\* Mutant of Forbidden: the request without credentials reaches the check of
\* the validation result and is answered by it.
ForbiddenAsInvalid(op, args) ==
  [Resp(op, <<>>, args) EXCEPT !.auth = FALSE, !.status = 400,
                               !.msg = "validation errors"]

\* isRequired / authenticateApiKey refuse the request: 403.
Forbidden(op, args) ==
  [Resp(op, <<>>, args) EXCEPT !.auth = FALSE, !.status = 403]

\* return res.status(400).send(validator)
Invalid(op, caller, args) ==
  [Resp(op, caller, args) EXCEPT !.status = 400, !.msg = "validation errors"]

\* The requests served at the same time, each by its own run of a handler.
Procs == {1, 2}

\* A run is bounded in the requests that change a collection and in those
\* that change none.  What a request does depends on the collections only, so
\* the requests that change none are explored from every state of the
\* collections that the changing requests reach.
Budget == nreq < MaxReq /\ idle < MaxIdle

Counted ==
  LET changed == orders' # orders \/ offers' # offers
  IN  /\ nreq' = IF changed THEN nreq + 1 ELSE nreq
      /\ idle' = IF changed THEN idle ELSE idle + 1

(***************************************************************************)
(* POST /orders                                                            *)
(***************************************************************************)
\* Mutant of NewDocument: the status and the owner of the body are kept.
NewDocumentFromBody(body, caller, id) ==
  [_id |-> id,
   orderId |-> body.orderId,
   amountTokenDeposit |-> body.amountTokenDeposit,
   addressTokenDeposit |-> body.addressTokenDeposit,
   chainIdTokenDeposit |-> body.chainIdTokenDeposit,
   destAddr |-> body.destAddr,
   amountTokenOffer |-> body.amountTokenOffer,
   offerId |-> body.offerId,
   hash |-> body.hash,
   date |-> id,
   userId |-> caller,
   isComplete |-> FALSE,
   status |-> body.status,
   completionHash |-> Absent]

\* newDocument = req.body with date, userId, isComplete and status set.
NewDocument(body, caller, id) ==
  [_id |-> id,
   orderId |-> body.orderId,
   amountTokenDeposit |-> body.amountTokenDeposit,
   addressTokenDeposit |-> body.addressTokenDeposit,
   chainIdTokenDeposit |-> body.chainIdTokenDeposit,
   destAddr |-> body.destAddr,
   amountTokenOffer |-> body.amountTokenOffer,
   offerId |-> body.offerId,
   hash |-> body.hash,
   date |-> id,
   userId |-> caller,
   isComplete |-> FALSE,
   status |-> PENDING,
   completionHash |-> Absent]

\* The existence check of POST /orders.
OrderExists(coll, body) ==
  findOne(coll, {d \in Docs(coll) : d.orderId = body.orderId}) # 0
  /\ body.orderId # ""

PostOrder(auth, caller, body, qkeys) ==
  /\ Budget
  /\ UNCHANGED <<inflight, blockchains>>
  /\ nextId <= MaxOrders
  /\ UNCHANGED <<offers, dispatched>>
  /\ IF ~auth
     THEN /\ last' = Forbidden("postOrder", body)
          /\ UNCHANGED <<orders, nextId>>
     ELSE IF validateResult(createOrderValidator(body, qkeys)) # <<>>
     THEN \* res.status(400).send(validator)
          /\ last' = [Invalid("postOrder", caller, body) EXCEPT
                        !.errors =
                          validateResult(createOrderValidator(body, qkeys))]
          /\ UNCHANGED <<orders, nextId>>
     ELSE LET exists == OrderExists(orders, body)
              i == findOne(orders,
                           {d \in Docs(orders) : d.orderId = body.orderId})
          IN  \* the 404 is sent without a return: the handler goes on to
              \* insert, and the send after the insert fails, the response
              \* being sent already
              /\ orders' = insertOne(orders, NewDocument(body, caller, nextId))
              /\ nextId' = nextId + 1
              /\ last' =
                   [Resp("postOrder", caller, body) EXCEPT
                      !.status = IF exists THEN 404 ELSE 200,
                      !.msg = IF exists THEN "This order already exists."
                              ELSE "insertOne result",
                      !.sends = IF exists THEN 2 ELSE 1,
                      !.threw = exists,
                      !.found = DocAt(orders, i)._id,
                      !.calls = <<"findOne", "insertOne">>]
  /\ Counted

(***************************************************************************)
(* PUT /orders/complete                                                    *)
(***************************************************************************)
CompleteFilter(caller, body, d) ==
  /\ d.orderId = body.orderId
  /\ RegexMatchI(caller, d.userId)
  /\ d.status = SUCCESS

\* Mutant of CompleteSet: the completion also raises isComplete.
CompleteSetRaises(body, d) ==
  [d EXCEPT !.status = COMPLETION,
            !.completionHash = Bson(body.completionHash),
            !.isComplete = TRUE]

CompleteSet(body, d) ==
  [d EXCEPT !.status = COMPLETION,
            !.completionHash = Bson(body.completionHash)]

PutComplete(auth, caller, body, qkeys) ==
  /\ Budget
  /\ UNCHANGED <<inflight, blockchains>>
  /\ UNCHANGED <<offers, dispatched, nextId>>
  /\ IF ~auth
     THEN /\ last' = Forbidden("putComplete", body)
          /\ UNCHANGED orders
     ELSE IF validateResult(setOrderCompleteValidator(body, qkeys)) # <<>>
     THEN /\ last' = Invalid("putComplete", caller,
                          body)
          /\ UNCHANGED orders
     ELSE LET i == findOne(orders, {d \in Docs(orders) :
                                         CompleteFilter(caller, body, d)})
              r == updateOne(orders, DocAt(orders, i),
                             CompleteSet(body, DocAt(orders, i)))
          IN  IF i = 0
              THEN /\ last' = [Resp("putComplete", caller, body) EXCEPT
                                 !.status = 404, !.msg = "No order found",
                                 !.calls = <<"findOne">>]
                   /\ UNCHANGED orders
              ELSE /\ orders' = r.coll
                   /\ last' = [Resp("putComplete", caller, body) EXCEPT
                                 !.msg = "updateOne result",
                                 !.found = orders[i]._id,
                                 !.calls = <<"findOne", "updateOne">>]
  /\ Counted

(***************************************************************************)
(* DELETE /orders/:orderId                                                 *)
(***************************************************************************)
DeleteFilter(caller, orderId, d) ==
  d.orderId = orderId /\ RegexMatchI(caller, d.userId)

DeleteOrder(auth, caller, orderId) ==
  /\ Budget
  /\ UNCHANGED <<inflight, blockchains>>
  /\ UNCHANGED <<offers, dispatched, nextId>>
  /\ IF ~auth
     THEN /\ last' = Forbidden("deleteOrder", [orderId |-> orderId])
          /\ UNCHANGED orders
     ELSE IF validateResult(deleteOrderValidator(orderId)) # <<>>
     THEN /\ last' = Invalid("deleteOrder", caller,
                          [orderId |-> orderId])
          /\ UNCHANGED orders
     ELSE LET i == findOne(orders, {d \in Docs(orders) :
                                         DeleteFilter(caller, orderId, d)})
              args == [orderId |-> orderId]
          IN  IF i # 0
              THEN /\ orders' = deleteOne(orders, orders[i])
                   /\ last' = [Resp("deleteOrder", caller, args) EXCEPT
                                 !.msg = "deleteOne result",
                                 !.found = orders[i]._id,
                                 !.calls = <<"findOne", "deleteOne">>]
              ELSE /\ last' = [Resp("deleteOrder", caller, args) EXCEPT
                                 !.status = 404, !.msg = "No order found",
                                 !.calls = <<"findOne">>]
                   /\ UNCHANGED orders
  /\ Counted

(***************************************************************************)
(* PUT /webhook/...                                                        *)
(* The validators of these routes (validators/webhook.validator.js) are    *)
(* taken by their result: bad says that they reported an error.            *)
(***************************************************************************)
\* Mutant of Coalesce: the value of the body is stored without a fallback.
CoalesceNone(x, y) == x

\* x ?? y
Coalesce(x, y) == IF x \in {Absent, Null} THEN y ELSE x

\* Mutant of Dispatches: the notification does not depend on modifiedCount.
DispatchesAlways(response, method, type, id) ==
  <<[method |-> method, params |-> [type |-> type, id |-> id]]>>

\* if (response.modifiedCount > 0) dispatch({method, params: {type, id}})
Dispatches(response, method, type, id) ==
  IF response.modifiedCount > 0
  THEN <<[method |-> method, params |-> [type |-> type, id |-> id]]>>
  ELSE <<>>

\* The store calls of a handler that found nothing and did not return: the
\* $set value is evaluated first and reads a field of null when the body
\* gives no value; otherwise updateOne is called with the null filter.
CallsOnMissing(returns, value) ==
  IF returns \/ value \in {Absent, Null} THEN <<"findOne">>
  ELSE <<"findOne", "updateOne">>

\* The five handlers that set one field of the offer found by offerId.
\* returns: the handler returns after reporting that no offer was found.
HookOfferField(op, method, field, returns, nfStatus, nfMsg, apiKey, bad, idOffer, value) ==
  /\ Budget
  /\ UNCHANGED <<inflight, blockchains>>
  /\ Len(dispatched) < MaxDispatch
  /\ UNCHANGED <<orders, nextId>>
  /\ IF ~apiKey
     THEN /\ last' = Forbidden(op, [idOffer |-> idOffer, value |-> value])
          /\ UNCHANGED <<offers, dispatched>>
     ELSE IF bad
     THEN /\ last' = Invalid(op, <<>>,
                          [idOffer |-> idOffer, value |-> value])
          /\ UNCHANGED <<offers, dispatched>>
     ELSE LET i == findOne(offers, {d \in Docs(offers) : d.offerId = idOffer})
              args == [idOffer |-> idOffer, value |-> value]
              r == updateOne(offers, DocAt(offers, i),
                     [offers[i] EXCEPT
                        ![field] = Coalesce(value, offers[i][field])])
              ev == Dispatches(r, method, "offer", idOffer)
          IN  IF i = 0
              THEN /\ UNCHANGED <<offers, dispatched>>
                   /\ last' = [Resp(op, <<>>, args) EXCEPT
                                 !.status = nfStatus, !.msg = nfMsg,
                                 !.calls = CallsOnMissing(returns, value),
                                 !.threw = ~returns]
              ELSE /\ offers' = r.coll
                   /\ dispatched' = dispatched \o ev
                   /\ last' = [Resp(op, <<>>, args) EXCEPT
                                 !.msg = "updateOne result",
                                 !.found = offers[i]._id,
                                 !.calls = <<"findOne", "updateOne">>,
                                 !.notified = Len(ev)]
  /\ Counted

HookMaxPrice(apiKey, bad, idOffer, value) ==
  HookOfferField("hookMaxPrice", "maxPrice", "max", TRUE, 400,
                 "No offer found", apiKey, bad, idOffer, value)

HookMinPrice(apiKey, bad, idOffer, value) ==
  HookOfferField("hookMinPrice", "minPrice", "min", FALSE, 400,
                 "No offer found", apiKey, bad, idOffer, value)

HookToken(apiKey, bad, idOffer, value) ==
  HookOfferField("hookToken", "token", "tokenAddress", FALSE, 400,
                 "No offer found", apiKey, bad, idOffer, value)

HookChain(apiKey, bad, idOffer, value) ==
  HookOfferField("hookChain", "chain", "chainId", FALSE, 400,
                 "No offer found", apiKey, bad, idOffer, value)

HookActivation(apiKey, bad, idOffer, value) ==
  HookOfferField("hookActivation", "status", "isActive", FALSE, 404,
                 "Not found.", apiKey, bad, idOffer, value)

\* PUT /webhook/offer: the offer found by hash gets its offerId.
HookOffer(apiKey, bad, hash, idOffer) ==
  /\ Budget
  /\ UNCHANGED <<inflight, blockchains>>
  /\ Len(dispatched) < MaxDispatch
  /\ UNCHANGED <<orders, nextId>>
  /\ IF ~apiKey
     THEN /\ last' = Forbidden("hookOffer", [hash |-> hash, idOffer |-> idOffer])
          /\ UNCHANGED <<offers, dispatched>>
     ELSE IF bad
     THEN /\ last' = Invalid("hookOffer", <<>>,
                          [hash |-> hash, idOffer |-> idOffer])
          /\ UNCHANGED <<offers, dispatched>>
     ELSE LET i == findOne(offers, {d \in Docs(offers) : d.hash = hash})
              args == [hash |-> hash, idOffer |-> idOffer]
              r == updateOne(offers, DocAt(offers, i),
                     [offers[i] EXCEPT !.offerId = idOffer,
                                       !.status = "success"])
              ev == Dispatches(r, "success", "offer", idOffer)
          IN  IF i = 0
              THEN /\ UNCHANGED <<offers, dispatched>>
                   /\ last' = [Resp("hookOffer", <<>>, args) EXCEPT
                                 !.status = 404, !.msg = "No offer found",
                                 !.calls = <<"findOne", "updateOne">>,
                                 !.threw = TRUE]
              ELSE /\ offers' = r.coll
                   /\ dispatched' = dispatched \o ev
                   /\ last' = [Resp("hookOffer", <<>>, args) EXCEPT
                                 !.msg = "updateOne result",
                                 !.found = offers[i]._id,
                                 !.calls = <<"findOne", "updateOne">>,
                                 !.notified = Len(ev)]
  /\ Counted

\* Mutant of HookOrderSet: the orderId is not assigned.
HookOrderSetStatusOnly(idTrade, d) == [d EXCEPT !.status = "success"]

\* $set of PUT /webhook/order
HookOrderSet(idTrade, d) == [d EXCEPT !.orderId = idTrade, !.status = "success"]

\* PUT /webhook/order: the order found by hash gets its orderId.
HookOrder(apiKey, bad, hash, idTrade) ==
  /\ Budget
  /\ UNCHANGED <<inflight, blockchains>>
  /\ Len(dispatched) < MaxDispatch
  /\ UNCHANGED <<offers, nextId>>
  /\ IF ~apiKey
     THEN /\ last' = Forbidden("hookOrder", [hash |-> hash, idTrade |-> idTrade])
          /\ UNCHANGED <<orders, dispatched>>
     ELSE IF bad
     THEN /\ last' = Invalid("hookOrder", <<>>,
                          [hash |-> hash, idTrade |-> idTrade])
          /\ UNCHANGED <<orders, dispatched>>
     ELSE LET i == findOne(orders, {d \in Docs(orders) : d.hash = hash})
              args == [hash |-> hash, idTrade |-> idTrade]
              r == updateOne(orders, DocAt(orders, i),
                             HookOrderSet(idTrade, DocAt(orders, i)))
              ev == Dispatches(r, "success", "order", idTrade)
          IN  IF i = 0
              THEN /\ UNCHANGED <<orders, dispatched>>
                   /\ last' = [Resp("hookOrder", <<>>, args) EXCEPT
                                 !.status = 404, !.msg = "No order found",
                                 !.calls = <<"findOne", "updateOne">>,
                                 !.threw = TRUE]
              ELSE /\ orders' = r.coll
                   /\ dispatched' = dispatched \o ev
                   /\ last' = [Resp("hookOrder", <<>>, args) EXCEPT
                                 !.msg = "updateOne result",
                                 !.found = orders[i]._id,
                                 !.calls = <<"findOne", "updateOne">>,
                                 !.notified = Len(ev)]
  /\ Counted

(***************************************************************************)
(* GET /orders/...                                                         *)
(***************************************************************************)
\* +req.query.x || 0 for the query strings drawn here.
PageNumber(v) ==
  IF v = "1" THEN 1 ELSE IF v = "2" THEN 2 ELSE IF v = "3" THEN 3 ELSE 0

\* .sort({ date: -1 })
RECURSIVE SortByDateDesc(_)
SortByDateDesc(list) ==
  IF list = <<>> THEN <<>>
  ELSE LET i == CHOOSE i \in 1..Len(list) :
                  /\ \A j \in 1..Len(list) : list[j].date <= list[i].date
                  /\ \A j \in 1..(i - 1) : list[j].date < list[i].date
       IN  <<list[i]>>
           \o SortByDateDesc(SubSeq(list, 1, i - 1)
                             \o SubSeq(list, i + 1, Len(list)))

\* Mutant of SkipLimit: the limit is not applied.
SkipOnly(list, offset, limit) == SubSeq(list, offset + 1, Len(list))

\* .skip(offset).limit(limit): a limit of 0 is no limit.
SkipLimit(list, offset, limit) ==
  LET rest == SubSeq(list, offset + 1, Len(list))
  IN  IF limit = 0 \/ limit >= Len(rest) THEN rest ELSE SubSeq(rest, 1, limit)

\* find(query).toArray()
find(coll, hits) == SelectSeq(coll, LAMBDA d : d \in hits)

\* getOrdersWithOffers of utils/orders-utils.js: each order with the offer its
\* offerId names (0 when there is none).
getOrdersWithOffers(list) ==
  [k \in 1..Len(list) |->
     [order |-> list[k],
      offer |-> DocAt(offers,
                      findOne(offers,
                              {o \in Docs(offers) :
                                 o.offerId = list[k].offerId}))._id]]

\* getOneOrderWithOffer of utils/orders-utils.js: an empty object for null.
getOneOrderWithOffer(order) ==
  IF order._id = 0 THEN <<>> ELSE getOrdersWithOffers(<<order>>)

UserQuery(caller, d) == RegexMatchI(caller, d.userId)

\* GET /orders/user.  The handler does not consult validateResult.
GetOrdersUser(auth, caller, bad, offset, limit) ==
  /\ Budget
  /\ UNCHANGED <<inflight, blockchains>>
  /\ UNCHANGED <<orders, offers, dispatched, nextId>>
  /\ IF ~auth
     THEN last' = Forbidden("getOrdersUser", [bad |-> bad, offset |-> offset, limit |-> limit])
     ELSE LET m == find(orders, {d \in Docs(orders) : UserQuery(caller, d)})
              page == SkipLimit(SortByDateDesc(m), PageNumber(offset),
                                PageNumber(limit))
          IN  last' = [Resp("getOrdersUser", caller,
                            [bad |-> bad, offset |-> offset, limit |-> limit])
                       EXCEPT
                         !.calls = <<"find", "countDocuments">>,
                         !.result = [orders |-> getOrdersWithOffers(page),
                                     totalCount |-> Len(m)]]
  /\ Counted

\* GET /orders/orderId
getOrderByOrderIdValidator(orderId) ==
  isStringNotEmpty("query", "orderId", orderId)

GetOrderByOrderId(auth, caller, orderId) ==
  /\ Budget
  /\ UNCHANGED <<inflight, blockchains>>
  /\ UNCHANGED <<orders, offers, dispatched, nextId>>
  /\ IF ~auth
     THEN last' = Forbidden("getOrderByOrderId", [orderId |-> orderId])
     ELSE IF validateResult(getOrderByOrderIdValidator(orderId)) # <<>>
     THEN last' = Invalid("getOrderByOrderId", caller,
                          [orderId |-> orderId])
     ELSE LET i == findOne(orders, {d \in Docs(orders) :
                                         /\ UserQuery(caller, d)
                                         /\ d.orderId = orderId})
          IN  last' = [Resp("getOrderByOrderId", caller, [orderId |-> orderId])
                       EXCEPT
                         !.calls = <<"findOne">>,
                         !.found = DocAt(orders, i)._id,
                         !.result =
                           [orders |-> getOneOrderWithOffer(DocAt(orders, i)),
                            totalCount |-> 0]]
  /\ Counted

\* GET /orders/id.  An id is the number the store assigned; 0 stands for a
\* string that is no MongoDB id.
getOrderByIdValidator(id) ==
  IF id # 0 THEN <<>> ELSE <<Err("query", "id", <<"must be mongodb id">>)>>

GetOrderById(auth, caller, id) ==
  /\ Budget
  /\ UNCHANGED <<inflight, blockchains>>
  /\ UNCHANGED <<orders, offers, dispatched, nextId>>
  /\ IF ~auth
     THEN last' = Forbidden("getOrderById", [id |-> id])
     ELSE IF validateResult(getOrderByIdValidator(id)) # <<>>
     THEN last' = Invalid("getOrderById", caller,
                          [id |-> id])
     ELSE LET i == findOne(orders, {d \in Docs(orders) :
                                         /\ UserQuery(caller, d)
                                         /\ d._id = id})
          IN  last' = [Resp("getOrderById", caller, [id |-> id]) EXCEPT
                         !.calls = <<"findOne">>,
                         !.found = DocAt(orders, i)._id,
                         !.result =
                           [orders |-> getOneOrderWithOffer(DocAt(orders, i)),
                            totalCount |-> 0]]
  /\ Counted

\* The offers filter of GET /orders/liquidity-provider.
ActiveOffersFilter(caller, isActiveOffers, o) ==
  /\ RegexMatchI(caller, o.userId)
  /\ IF isActiveOffers \in {Absent, ""} THEN TRUE
     ELSE IF isActiveOffers = "true" THEN o.isActive = "#true"
     ELSE o.isActive = "#false"

\* GET /orders/liquidity-provider.  The handler does not consult
\* validateResult.  JSON.parse throws on a string that is no JSON text,
\* before any store call, and the request gets no response.
GetOrdersLiquidityProvider(auth, caller, bad, isActiveOffers, offset, limit) ==
  /\ Budget
  /\ UNCHANGED <<inflight, blockchains>>
  /\ UNCHANGED <<orders, offers, dispatched, nextId>>
  /\ IF ~auth
     THEN last' = Forbidden("getOrdersLiquidityProvider", [bad |-> bad, isActiveOffers |-> isActiveOffers,
                          offset |-> offset, limit |-> limit])
     ELSE LET args == [bad |-> bad, isActiveOffers |-> isActiveOffers,
                       offset |-> offset, limit |-> limit]
              mine == find(offers, {o \in Docs(offers) :
                             ActiveOffersFilter(caller, isActiveOffers, o)})
              ids == {mine[k].offerId : k \in 1..Len(mine)}
              m == find(orders, {d \in Docs(orders) : d.offerId \in ids})
              page == SkipLimit(SortByDateDesc(m), PageNumber(offset),
                                PageNumber(limit))
          IN  IF isActiveOffers \notin {Absent, "", "true", "false"}
              THEN last' = [Resp("getOrdersLiquidityProvider", caller, args)
                            EXCEPT !.status = 0, !.sends = 0, !.threw = TRUE]
              ELSE last' = [Resp("getOrdersLiquidityProvider", caller, args)
                            EXCEPT
                              !.calls = <<"find", "find", "countDocuments">>,
                              !.result =
                                [orders |-> getOrdersWithOffers(page),
                                 totalCount |-> Len(m)]]
  /\ Counted

(***************************************************************************)
(* The requests drawn.  A request stopped by the authentication or by the  *)
(* validators is drawn once per route, its other inputs having no effect.  *)
(***************************************************************************)
\* The users that place orders; any user of Users reads, completes and deletes.
Creators == {<<"a">>, <<"a", "b">>}
TradeIds == {"X", "Y"}
Hashes == {"h1", "h2"}
OfferIds == {"o1", "o2"}
Values == {"2"}

BaseBody ==
  [status |-> "pending", orderId |-> "X", amountTokenDeposit |-> "0.34",
   addressTokenDeposit |-> "0x0", chainIdTokenDeposit |-> "13434",
   destAddr |-> "mydestAddr", amountTokenOffer |-> "5433",
   offerId |-> "o1", hash |-> "h1", userId |-> Absent, foo |-> Absent]

ValidBodies ==
  {BaseBody,
   [BaseBody EXCEPT !.hash = "h2"],
   [BaseBody EXCEPT !.orderId = ""],
   [BaseBody EXCEPT !.status = "success"],
        [BaseBody EXCEPT !.status = "failure"],
        [BaseBody EXCEPT !.offerId = "o2"]}

DefectBodies ==
  {[BaseBody EXCEPT !.status = Absent],
   [BaseBody EXCEPT !.status = "completion"],
   [BaseBody EXCEPT !.orderId = NumVal],
   [BaseBody EXCEPT !.destAddr = ""],
   [BaseBody EXCEPT !.hash = NumVal],
   [BaseBody EXCEPT !.offerId = Absent],
   [BaseBody EXCEPT !.userId = "ab"],
   [BaseBody EXCEPT !.status = Absent, !.orderId = NumVal],
   [BaseBody EXCEPT !.status = Absent, !.hash = ""]}

PostOrderReqs ==
  {[auth |-> TRUE, caller |-> c, body |-> b, qkeys |-> <<>>] :
     c \in Creators, b \in ValidBodies}
  \cup {[auth |-> TRUE, caller |-> <<"a">>, body |-> b, qkeys |-> <<>>] :
          b \in DefectBodies}
  \cup {[auth |-> TRUE, caller |-> <<"a">>, body |-> BaseBody,
         qkeys |-> <<"bar">>],
        [auth |-> FALSE, caller |-> <<>>, body |-> BaseBody, qkeys |-> <<>>],
        [auth |-> FALSE, caller |-> <<>>,
         body |-> [BaseBody EXCEPT !.destAddr = ""], qkeys |-> <<>>]}

PutCompleteReqs ==
  {[auth |-> TRUE, caller |-> c, qkeys |-> <<>>,
    body |-> [orderId |-> o, completionHash |-> Absent]] :
     c \in Users, o \in TradeIds}
  \cup {[auth |-> TRUE, caller |-> c, qkeys |-> <<>>,
         body |-> [orderId |-> "X", completionHash |-> "c1"]] : c \in Users}
  \cup {[auth |-> TRUE, caller |-> <<"a">>, qkeys |-> <<>>,
         body |-> [orderId |-> o, completionHash |-> Absent]] :
          o \in {"", NumVal}}
  \cup {[auth |-> TRUE, caller |-> <<"a">>, qkeys |-> <<"bar">>,
         body |-> [orderId |-> "X", completionHash |-> Absent]],
        [auth |-> FALSE, caller |-> <<>>, qkeys |-> <<>>,
         body |-> [orderId |-> "X", completionHash |-> Absent]]}

DeleteOrderReqs ==
  {[auth |-> TRUE, caller |-> c, orderId |-> o] : c \in Users, o \in TradeIds}
  \cup {[auth |-> FALSE, caller |-> <<>>, orderId |-> "X"]}

\* bad: the pagination validator of the route reported an error.
Pages ==
  {[bad |-> FALSE, offset |-> Absent, limit |-> Absent],
   [bad |-> FALSE, offset |-> "1", limit |-> Absent],
   [bad |-> FALSE, offset |-> Absent, limit |-> "1"],
   [bad |-> FALSE, offset |-> "1", limit |-> "1"],
   [bad |-> FALSE, offset |-> "2", limit |-> "0"],
   [bad |-> TRUE, offset |-> "x", limit |-> Absent]}

GetOrdersUserReqs ==
  {[auth |-> TRUE, caller |-> c,
    page |-> [bad |-> FALSE, offset |-> Absent, limit |-> Absent]] :
     c \in Users}
  \cup {[auth |-> TRUE, caller |-> <<"a">>, page |-> p] : p \in Pages}
  \cup {[auth |-> FALSE, caller |-> <<>>,
         page |-> [bad |-> FALSE, offset |-> Absent, limit |-> Absent]]}

GetOrderByOrderIdReqs ==
  {[auth |-> TRUE, caller |-> c, orderId |-> "X"] : c \in Users}
  \cup {[auth |-> TRUE, caller |-> <<"a">>, orderId |-> o] :
          o \in {"Y", "", Absent}}
  \cup {[auth |-> FALSE, caller |-> <<>>, orderId |-> "X"]}

GetOrderByIdReqs ==
  {[auth |-> TRUE, caller |-> c, id |-> 1] : c \in Users}
  \cup {[auth |-> TRUE, caller |-> <<"a">>, id |-> i] :
          i \in {0, 2, MaxOrders + 1}}
  \cup {
        [auth |-> FALSE, caller |-> <<>>, id |-> 1]}

GetOrdersLiquidityProviderReqs ==
  {[auth |-> TRUE, caller |-> c, isActiveOffers |-> a,
    page |-> [bad |-> FALSE, offset |-> Absent, limit |-> Absent]] :
     c \in Users, a \in {Absent, "true"}}
  \cup {[auth |-> TRUE, caller |-> <<"a", "b">>, isActiveOffers |-> "false",
         page |-> [bad |-> FALSE, offset |-> Absent, limit |-> Absent]]}
  \cup {[auth |-> TRUE, caller |-> <<"a">>, isActiveOffers |-> Absent,
         page |-> p] : p \in Pages}
  \cup {[auth |-> TRUE, caller |-> <<"a">>, isActiveOffers |-> "x",
         page |-> [bad |-> TRUE, offset |-> Absent, limit |-> Absent]],
        [auth |-> FALSE, caller |-> <<>>, isActiveOffers |-> Absent,
         page |-> [bad |-> FALSE, offset |-> Absent, limit |-> Absent]]}

\* bad: the validator of the webhook route reported an error.
HookFieldReqs(values) ==
  {[apiKey |-> TRUE, bad |-> FALSE, idOffer |-> o, value |-> v] :
     o \in {"o1", "o3"}, v \in values \cup {Absent}}
  \cup {[apiKey |-> TRUE, bad |-> TRUE, idOffer |-> "o1", value |-> NumVal],
        [apiKey |-> FALSE, bad |-> FALSE, idOffer |-> "o1", value |-> Absent]}

HookOfferReqs ==
  {[apiKey |-> TRUE, bad |-> FALSE, hash |-> h, idOffer |-> o] :
     h \in {"g1", "g3"}, o \in {"o1", "o3"}}
  \cup {[apiKey |-> TRUE, bad |-> TRUE, hash |-> "g1", idOffer |-> NumVal],
        [apiKey |-> FALSE, bad |-> FALSE, hash |-> "g1", idOffer |-> "o1"]}

HookOrderReqs ==
  {[apiKey |-> TRUE, bad |-> FALSE, hash |-> h, idTrade |-> t] :
     h \in Hashes \cup {"h3"}, t \in TradeIds}
  \cup {[apiKey |-> TRUE, bad |-> TRUE, hash |-> "h1", idTrade |-> NumVal],
        [apiKey |-> FALSE, bad |-> FALSE, hash |-> "h1", idTrade |-> "X"],
        [apiKey |-> FALSE, bad |-> TRUE, hash |-> "h1", idTrade |-> NumVal]}

InitOffers ==
  <<[_id |-> 1, offerId |-> "o1", userId |-> <<"a">>, hash |-> "g1",
     min |-> "1", max |-> "1", tokenAddress |-> "1", chainId |-> "1",
     isActive |-> "#true", status |-> "pending"],
    [_id |-> 2, offerId |-> "o2", userId |-> <<"a", "b">>, hash |-> "g2",
     min |-> "1", max |-> "1", tokenAddress |-> "1", chainId |-> "1",
     isActive |-> "#false", status |-> "pending"]>>

Init ==
  /\ orders = <<>>
  /\ offers = InitOffers
  /\ dispatched = <<>>
  /\ nextId = 1
  /\ nreq = 0
  /\ idle = 0
  /\ last = Resp("none", <<>>, NoArgs)
  /\ inflight = [p \in Procs |-> Resp("none", <<>>, NoArgs)]
  /\ blockchains = <<>>

Next ==
  \/ \E r \in PostOrderReqs : PostOrder(r.auth, r.caller, r.body, r.qkeys)
  \/ \E r \in PutCompleteReqs : PutComplete(r.auth, r.caller, r.body, r.qkeys)
  \/ \E r \in DeleteOrderReqs : DeleteOrder(r.auth, r.caller, r.orderId)
  \/ \E r \in GetOrdersUserReqs :
       GetOrdersUser(r.auth, r.caller, r.page.bad, r.page.offset, r.page.limit)
  \/ \E r \in GetOrderByOrderIdReqs :
       GetOrderByOrderId(r.auth, r.caller, r.orderId)
  \/ \E r \in GetOrderByIdReqs : GetOrderById(r.auth, r.caller, r.id)
  \/ \E r \in GetOrdersLiquidityProviderReqs :
       GetOrdersLiquidityProvider(r.auth, r.caller, r.page.bad,
                                  r.isActiveOffers, r.page.offset, r.page.limit)
  \/ \E r \in HookFieldReqs(Values) :
       HookMaxPrice(r.apiKey, r.bad, r.idOffer, r.value)
  \/ \E r \in HookFieldReqs(Values) :
       HookMinPrice(r.apiKey, r.bad, r.idOffer, r.value)
  \/ \E r \in HookFieldReqs(Values) :
       HookToken(r.apiKey, r.bad, r.idOffer, r.value)
  \/ \E r \in HookFieldReqs(Values) :
       HookChain(r.apiKey, r.bad, r.idOffer, r.value)
  \/ \E r \in HookFieldReqs({"#false"}) :
       HookActivation(r.apiKey, r.bad, r.idOffer, r.value)
  \/ \E r \in HookOfferReqs : HookOffer(r.apiKey, r.bad, r.hash, r.idOffer)
  \/ \E r \in HookOrderReqs : HookOrder(r.apiKey, r.bad, r.hash, r.idTrade)

Spec == Init /\ [][Next]_vars


(***************************************************************************)
(* Concurrent requests.  A handler gives way to the other requests at each *)
(* await: a request runs up to the answer of its findOne in one step and   *)
(* from there to its end, through insertOne or updateOne, in another.      *)
(* inflight[p] is the request process p serves: pc tells where its handler *)
(* stands ("write": findOne answered, "done"); op is "none" before it     *)
(* starts.                                                                 *)
(* The requests are authenticated and pass the validators.                 *)
(***************************************************************************)
Running(op, caller, args) ==
  [Resp(op, caller, args) EXCEPT
     !.pc = "write", !.status = 0, !.sends = 0, !.calls = <<"findOne">>]

\* router.post('/') up to the answer of findOne: on a hit the 404 is sent and
\* the handler goes on.
RacePostOrderFind(p, caller, body) ==
  /\ inflight[p].op = "none"
  /\ LET i == findOne(orders,
                      {d \in Docs(orders) : d.orderId = body.orderId})
         exists == OrderExists(orders, body)
     IN  inflight' =
           [inflight EXCEPT
              ![p] = [Running("postOrder", caller, body) EXCEPT
                        !.found = DocAt(orders, i)._id,
                        !.status = IF exists THEN 404 ELSE 0,
                        !.msg = IF exists THEN "This order already exists."
                                ELSE "",
                        !.sends = IF exists THEN 1 ELSE 0]]
  /\ UNCHANGED <<orders, offers, dispatched, nextId, nreq, idle, last,
                 blockchains>>

\* router.post('/') from the answer of findOne on: insertOne, then send.
RacePostOrderInsert(p) ==
  /\ inflight[p].op = "postOrder"
  /\ inflight[p].pc = "write"
  /\ orders' = insertOne(orders,
                         NewDocument(inflight[p].args, inflight[p].caller,
                                     nextId))
  /\ nextId' = nextId + 1
  /\ inflight' =
       [inflight EXCEPT
          ![p] = [@ EXCEPT
                    !.pc = "done",
                    !.status = IF inflight[p].status = 404 THEN 404 ELSE 200,
                    !.msg = IF inflight[p].status = 404
                            THEN "This order already exists."
                            ELSE "insertOne result",
                    !.threw = inflight[p].status = 404,
                    !.sends = inflight[p].sends + 1,
                    !.calls = <<"findOne", "insertOne">>]]
  /\ UNCHANGED <<offers, dispatched, nreq, idle, last, blockchains>>

\* The field and the notification method of a webhook that sets one field of
\* an offer, and whether its handler returns when no offer is found.
HookField(op) ==
  CASE op = "hookMaxPrice" ->
         [field |-> "max", method |-> "maxPrice", returns |-> TRUE]
    [] op = "hookMinPrice" ->
         [field |-> "min", method |-> "minPrice", returns |-> FALSE]

\* A webhook that sets one field of an offer, up to the answer of findOne.
RaceHookFind(p, op, idOffer, value) ==
  /\ inflight[p].op = "none"
  /\ LET i == findOne(offers, {d \in Docs(offers) : d.offerId = idOffer})
         args == [idOffer |-> idOffer, value |-> value,
                  offer |-> DocAt(offers, i)]
     IN  inflight' =
           [inflight EXCEPT
              ![p] = [Running(op, <<>>, args) EXCEPT
                        !.found = DocAt(offers, i)._id,
                        !.pc = IF i = 0 /\ HookField(op).returns
                               THEN "done" ELSE "write",
                        !.status = IF i = 0 THEN 400 ELSE 0,
                        !.msg = IF i = 0 THEN "No offer found" ELSE "",
                        !.sends = IF i = 0 THEN 1 ELSE 0]]
  /\ UNCHANGED <<orders, offers, dispatched, nextId, nreq, idle, last,
                 blockchains>>

\* The same webhook from the answer of findOne on: updateOne with the
\* document read as filter, the notification, the response.
RaceHookUpdate(p) ==
  /\ inflight[p].op \in {"hookMaxPrice", "hookMinPrice"}
  /\ inflight[p].pc = "write"
  /\ LET me == inflight[p]
         h == HookField(me.op)
         read == me.args.offer
         r == updateOne(offers, read,
                        [read EXCEPT
                           ![h.field] = Coalesce(me.args.value,
                                                 read[h.field])])
         ev == Dispatches(r, h.method, "offer", me.args.idOffer)
     IN  IF me.found = 0
         THEN /\ UNCHANGED <<offers, dispatched>>
              /\ inflight' =
                   [inflight EXCEPT
                      ![p] = [@ EXCEPT
                                !.pc = "done", !.threw = TRUE,
                                !.calls = CallsOnMissing(FALSE,
                                                         me.args.value)]]
         ELSE /\ offers' = r.coll
              /\ dispatched' = dispatched \o ev
              /\ inflight' =
                   [inflight EXCEPT
                      ![p] = [@ EXCEPT
                                !.pc = "done", !.status = 200,
                                !.msg = "updateOne result", !.sends = 1,
                                !.calls = <<"findOne", "updateOne">>,
                                !.notified = Len(ev)]]
  /\ UNCHANGED <<orders, nextId, nreq, idle, last, blockchains>>

\* PUT /orders/complete up to the answer of findOne: without an order the
\* handler returns with the 404.
RaceCompleteFind(p, caller, body) ==
  /\ inflight[p].op = "none"
  /\ LET i == findOne(orders, {d \in Docs(orders) :
                                  CompleteFilter(caller, body, d)})
         args == [orderId |-> body.orderId,
                  completionHash |-> body.completionHash,
                  order |-> DocAt(orders, i)]
     IN  inflight' =
           [inflight EXCEPT
              ![p] =
                IF validateResult(setOrderCompleteValidator(body, <<>>)) # <<>>
                THEN Invalid("putComplete", caller, args)
                ELSE [Running("putComplete", caller, args) EXCEPT
                        !.found = DocAt(orders, i)._id,
                        !.pc = IF i = 0 THEN "done" ELSE "write",
                        !.status = IF i = 0 THEN 404 ELSE 0,
                        !.msg = IF i = 0 THEN "No order found" ELSE "",
                        !.sends = IF i = 0 THEN 1 ELSE 0]]
  /\ UNCHANGED <<orders, offers, dispatched, nextId, nreq, idle, last,
                 blockchains>>

\* PUT /orders/complete from the answer of findOne on: updateOne with the
\* document read as filter, its result being the response.
RaceCompleteUpdate(p) ==
  /\ inflight[p].op = "putComplete"
  /\ inflight[p].pc = "write"
  /\ LET me == inflight[p]
         r == updateOne(orders, me.args.order,
                        CompleteSet(me.args, me.args.order))
     IN  /\ orders' = r.coll
         /\ inflight' =
              [inflight EXCEPT
                 ![p] = [@ EXCEPT
                           !.pc = "done", !.status = 200,
                           !.msg = "updateOne result", !.sends = 1,
                           !.modified = r.modifiedCount,
                           !.calls = <<"findOne", "updateOne">>]]
  /\ UNCHANGED <<offers, dispatched, nextId, nreq, idle, last, blockchains>>

\* DELETE /orders/:orderId up to the answer of findOne.
RaceDeleteFind(p, caller, orderId) ==
  /\ inflight[p].op = "none"
  /\ LET i == findOne(orders, {d \in Docs(orders) :
                                  DeleteFilter(caller, orderId, d)})
         args == [orderId |-> orderId, order |-> DocAt(orders, i)]
     IN  inflight' =
           [inflight EXCEPT
              ![p] =
                IF validateResult(deleteOrderValidator(orderId)) # <<>>
                THEN Invalid("deleteOrder", caller, args)
                ELSE [Running("deleteOrder", caller, args) EXCEPT
                        !.found = DocAt(orders, i)._id,
                        !.pc = IF i = 0 THEN "done" ELSE "write",
                        !.status = IF i = 0 THEN 404 ELSE 0,
                        !.msg = IF i = 0 THEN "No order found" ELSE "",
                        !.sends = IF i = 0 THEN 1 ELSE 0]]
  /\ UNCHANGED <<orders, offers, dispatched, nextId, nreq, idle, last,
                 blockchains>>

\* DELETE /orders/:orderId from the answer of findOne on: deleteOne with the
\* document read as filter, its result being the response.
RaceDeleteRemove(p) ==
  /\ inflight[p].op = "deleteOrder"
  /\ inflight[p].pc = "write"
  /\ orders' = deleteOne(orders, inflight[p].args.order)
  /\ inflight' =
       [inflight EXCEPT
          ![p] = [@ EXCEPT
                    !.pc = "done", !.status = 200,
                    !.msg = "deleteOne result", !.sends = 1,
                    !.modified = Len(orders) - Len(orders'),
                    !.calls = <<"findOne", "deleteOne">>]]
  /\ UNCHANGED <<offers, dispatched, nextId, nreq, idle, last, blockchains>>

\* PUT /webhook/order up to the answer of findOne: without an order the 404
\* is sent and the handler goes on.
RaceHookOrderFind(p, hash, idTrade) ==
  /\ inflight[p].op = "none"
  /\ LET i == findOne(orders, {d \in Docs(orders) : d.hash = hash})
         args == [hash |-> hash, idTrade |-> idTrade,
                  order |-> DocAt(orders, i)]
     IN  inflight' =
           [inflight EXCEPT
              ![p] = [Running("hookOrder", <<>>, args) EXCEPT
                        !.found = DocAt(orders, i)._id,
                        !.status = IF i = 0 THEN 404 ELSE 0,
                        !.msg = IF i = 0 THEN "No order found" ELSE "",
                        !.sends = IF i = 0 THEN 1 ELSE 0]]
  /\ UNCHANGED <<orders, offers, dispatched, nextId, nreq, idle, last,
                 blockchains>>

\* PUT /webhook/order from the answer of findOne on: updateOne with the
\* document read as filter, the notification, the response.
RaceHookOrderUpdate(p) ==
  /\ inflight[p].op = "hookOrder"
  /\ inflight[p].pc = "write"
  /\ LET me == inflight[p]
         r == updateOne(orders, me.args.order,
                        HookOrderSet(me.args.idTrade, me.args.order))
         ev == Dispatches(r, "success", "order", me.args.idTrade)
     IN  IF me.found = 0
         THEN /\ UNCHANGED <<orders, dispatched>>
              /\ inflight' =
                   [inflight EXCEPT
                      ![p] = [@ EXCEPT
                                !.pc = "done", !.threw = TRUE,
                                !.calls = <<"findOne", "updateOne">>]]
         ELSE /\ orders' = r.coll
              /\ dispatched' = dispatched \o ev
              /\ inflight' =
                   [inflight EXCEPT
                      ![p] = [@ EXCEPT
                                !.pc = "done", !.status = 200,
                                !.msg = "updateOne result", !.sends = 1,
                                !.modified = r.modifiedCount,
                                !.calls = <<"findOne", "updateOne">>,
                                !.notified = Len(ev)]]
  /\ UNCHANGED <<offers, nextId, nreq, idle, last, blockchains>>

\* No request is in progress.
Quiet == \A p \in Procs : inflight[p].op = "none"

\* The requests answered one after the other before the concurrent ones.
RaceEarlierPosts == {BaseBody, [BaseBody EXCEPT !.orderId = "Y"]}

\* A POST /orders and a PUT /webhook/order answered while no other request
\* is in progress.
EarlierPostOrder(body) == Quiet /\ PostOrder(TRUE, <<"a">>, body, <<>>)

EarlierHookOrder == Quiet /\ HookOrder(TRUE, FALSE, "h1", "X")

RaceCompleteReqs ==
  {[caller |-> <<"a">>, body |-> [orderId |-> "X", completionHash |-> c]] :
     c \in {Absent, "c1"}}

RaceDeleteReqs == {[caller |-> <<"a">>, orderId |-> "X"]}

RaceHookOrderReqs == {[hash |-> "h1", idTrade |-> t] : t \in TradeIds}

RacePostOrderReqs ==
  {[caller |-> c, body |-> [BaseBody EXCEPT !.orderId = o]] :
     c \in Creators, o \in {"X", "Y", ""}}

RaceHookReqs ==
  {[op |-> op, idOffer |-> o, value |-> v] :
     op \in {"hookMaxPrice", "hookMinPrice"}, o \in {"o1", "o3"},
     v \in {"2", "3", Absent}}

NextRace ==
  \/ \E p \in Procs, r \in RacePostOrderReqs :
       RacePostOrderFind(p, r.caller, r.body)
  \/ \E p \in Procs : RacePostOrderInsert(p)
  \/ \E p \in Procs, r \in RaceHookReqs :
       RaceHookFind(p, r.op, r.idOffer, r.value)
  \/ \E p \in Procs : RaceHookUpdate(p)
  \/ \E p \in Procs, r \in RaceCompleteReqs :
       RaceCompleteFind(p, r.caller, r.body)
  \/ \E p \in Procs : RaceCompleteUpdate(p)
  \/ \E p \in Procs, r \in RaceDeleteReqs :
       RaceDeleteFind(p, r.caller, r.orderId)
  \/ \E p \in Procs : RaceDeleteRemove(p)
  \/ \E p \in Procs, r \in RaceHookOrderReqs :
       RaceHookOrderFind(p, r.hash, r.idTrade)
  \/ \E p \in Procs : RaceHookOrderUpdate(p)
  \/ \E b \in RaceEarlierPosts : EarlierPostOrder(b)
  \/ EarlierHookOrder

SpecRace == Init /\ [][NextRace]_vars

(***************************************************************************)
(* The validators alone.  A request is drawn, then the validators of its   *)
(* route run on it and validateResult returns their errors.                *)
(***************************************************************************)
ValidateBodies ==
  {[BaseBody EXCEPT !.status = s, !.orderId = o, !.destAddr = d, !.hash = h,
                    !.offerId = f, !.userId = u, !.foo = x] :
     s \in {"pending", "completion", Absent},
     o \in {"X", "", NumVal, Absent},
     d \in {"mydestAddr", "", NumVal, Absent},
     h \in {"h1", "", NumVal},
     f \in {"o1", Absent},
     u \in {Absent, "ab"},
     x \in {Absent, "f"}}

ValidateReqs ==
  {[route |-> "postOrder", body |-> b, qkeys |-> q] :
     b \in ValidateBodies, q \in {<<>>, <<"bar">>, <<"bar", "baz">>}}
  \cup {[route |-> "putComplete",
         body |-> [orderId |-> o, completionHash |-> c], qkeys |-> q] :
          o \in {"X", "", NumVal, Absent}, c \in {Absent, "c1"},
          q \in {<<>>, <<"bar">>}}
  \cup {[route |-> r, orderId |-> o] :
          r \in {"deleteOrder", "getOrderByOrderId"},
          o \in {"X", "", NumVal, Absent}}
  \cup {[route |-> "getOrderById", id |-> i] : i \in {0, 1}}

InitValidate ==
  /\ orders = <<>>
  /\ offers = InitOffers
  /\ dispatched = <<>>
  /\ nextId = 1
  /\ nreq = 0
  /\ idle = 0
  /\ inflight = [p \in Procs |-> Resp("none", <<>>, NoArgs)]
  /\ blockchains = <<>>
  /\ \E r \in ValidateReqs : last = [op |-> "request", req |-> r]

Validated(errors) ==
  /\ last' = [op |-> "validated", req |-> last.req,
              errors |-> validateResult(errors)]
  /\ UNCHANGED <<orders, offers, dispatched, nextId, nreq, idle, inflight,
                 blockchains>>

ValidateCreateOrder ==
  /\ last.op = "request"
  /\ last.req.route = "postOrder"
  /\ Validated(createOrderValidator(last.req.body, last.req.qkeys))

ValidateSetOrderComplete ==
  /\ last.op = "request"
  /\ last.req.route = "putComplete"
  /\ Validated(setOrderCompleteValidator(last.req.body, last.req.qkeys))

ValidateDeleteOrder ==
  /\ last.op = "request"
  /\ last.req.route = "deleteOrder"
  /\ Validated(deleteOrderValidator(last.req.orderId))

ValidateGetOrderByOrderId ==
  /\ last.op = "request"
  /\ last.req.route = "getOrderByOrderId"
  /\ Validated(getOrderByOrderIdValidator(last.req.orderId))

ValidateGetOrderById ==
  /\ last.op = "request"
  /\ last.req.route = "getOrderById"
  /\ Validated(getOrderByIdValidator(last.req.id))

NextValidate ==
  \/ ValidateCreateOrder
  \/ ValidateSetOrderComplete
  \/ ValidateDeleteOrder
  \/ ValidateGetOrderByOrderId
  \/ ValidateGetOrderById

SpecValidate == InitValidate /\ [][NextValidate]_vars

(***************************************************************************)
(* The blockchain routes (routes/blockchains.js).  A blockchain keeps the  *)
(* fields the claims speak of: its internal id, its caipId and its label.  *)
(***************************************************************************)
CaipIds == {"eip155:5", "eip155:534"}
NonCaipId == "eip155"
Labels == {"Goerli", "newLabel"}

\* isCaipId: namespace:reference.
isCaipId(v) ==
  IF v \in CaipIds THEN <<>>
  ELSE <<Err("body", "caipId", <<"must be a valid CAIP id">>)>>

\* collection.findOne({ caipId: req.body.caipId }) answered a document.
CaipIdTaken(coll, caipId) == \E d \in Docs(coll) : d.caipId = caipId

\* POST /blockchains: a read, then a conditional write.
PostBlockchain(auth, body) ==
  /\ nextId <= MaxChains
  /\ IF ~auth
     THEN /\ last' = Forbidden("postBlockchain", body)
          /\ UNCHANGED <<blockchains, nextId>>
     ELSE IF isCaipId(body.caipId) # <<>>
     THEN /\ last' = [Invalid("postBlockchain", <<>>, body) EXCEPT
                        !.errors = isCaipId(body.caipId)]
          /\ UNCHANGED <<blockchains, nextId>>
     ELSE IF CaipIdTaken(blockchains, body.caipId)
     THEN /\ last' = [Resp("postBlockchain", <<>>, body) EXCEPT
                        !.status = 404,
                        !.msg = "This blockchain already exists.",
                        !.calls = <<"findOne">>]
          /\ UNCHANGED <<blockchains, nextId>>
     ELSE /\ blockchains' =
            insertOne(blockchains,
                      [_id |-> nextId, caipId |-> body.caipId,
                       label |-> body.label])
          /\ nextId' = nextId + 1
          /\ last' = [Resp("postBlockchain", <<>>, body) EXCEPT
                        !.msg = "insertOne result",
                        !.calls = <<"findOne", "insertOne">>]
  /\ UNCHANGED <<orders, offers, dispatched, nreq, idle, inflight>>

\* The fields of the body replace those of the stored blockchain.
BlockchainSet(body, d) ==
  [d EXCEPT !.caipId = IF body.caipId = Absent THEN @ ELSE body.caipId,
            !.label = IF body.label = Absent THEN @ ELSE body.label]

\* PUT /blockchains/:blockchainId
PutBlockchain(auth, id, body) ==
  /\ LET args == [id |-> id, body |-> body]
         i == findOne(blockchains, {d \in Docs(blockchains) : d._id = id})
     IN  IF ~auth
         THEN /\ last' = Forbidden("putBlockchain", args)
              /\ UNCHANGED blockchains
         ELSE IF body.caipId # Absent /\ isCaipId(body.caipId) # <<>>
         THEN /\ last' = [Invalid("putBlockchain", <<>>, args) EXCEPT
                            !.errors = isCaipId(body.caipId)]
              /\ UNCHANGED blockchains
         ELSE IF i = 0
         THEN /\ last' = [Resp("putBlockchain", <<>>, args) EXCEPT
                            !.status = 404, !.msg = "No blockchain found",
                            !.calls = <<"findOne">>]
              /\ UNCHANGED blockchains
         ELSE /\ blockchains' =
                   [blockchains EXCEPT ![i] = BlockchainSet(body, @)]
              /\ last' = [Resp("putBlockchain", <<>>, args) EXCEPT
                            !.msg = "updateOne result",
                            !.found = id,
                            !.calls = <<"findOne", "updateOne">>]
  /\ UNCHANGED <<orders, offers, dispatched, nextId, nreq, idle, inflight>>

\* DELETE /blockchains/:blockchainId
DeleteBlockchain(auth, id) ==
  /\ LET args == [id |-> id]
         i == findOne(blockchains, {d \in Docs(blockchains) : d._id = id})
     IN  IF ~auth
         THEN /\ last' = Forbidden("deleteBlockchain", args)
              /\ UNCHANGED blockchains
         ELSE IF i = 0
         THEN /\ last' = [Resp("deleteBlockchain", <<>>, args) EXCEPT
                            !.status = 404, !.msg = "No blockchain found",
                            !.calls = <<"findOne">>]
              /\ UNCHANGED blockchains
         ELSE /\ blockchains' =
                   deleteOne(blockchains, DocAt(blockchains, i))
              /\ last' = [Resp("deleteBlockchain", <<>>, args) EXCEPT
                            !.msg = "deleteOne result",
                            !.found = id,
                            !.calls = <<"findOne", "deleteOne">>]
  /\ UNCHANGED <<orders, offers, dispatched, nextId, nreq, idle, inflight>>

PostBlockchainReqs ==
  {[auth |-> a, body |-> [caipId |-> c, label |-> "Goerli"]] :
     a \in BOOLEAN, c \in CaipIds \cup {NonCaipId}}

PutBlockchainReqs ==
  {[auth |-> a, id |-> i, body |-> [caipId |-> c, label |-> l]] :
     a \in BOOLEAN, i \in 1..MaxChains,
     c \in CaipIds \cup {NonCaipId, Absent}, l \in {Absent, "newLabel"}}

DeleteBlockchainReqs ==
  {[auth |-> a, id |-> i] : a \in BOOLEAN, i \in 1..MaxChains}

NextChains ==
  \/ \E r \in PostBlockchainReqs : PostBlockchain(r.auth, r.body)
  \/ \E r \in PutBlockchainReqs : PutBlockchain(r.auth, r.id, r.body)
  \/ \E r \in DeleteBlockchainReqs : DeleteBlockchain(r.auth, r.id)

SpecChains == Init /\ [][NextChains]_vars

(***************************************************************************)
(* Properties.                                                             *)
(***************************************************************************)
HookOfferOps ==
  {"hookMaxPrice", "hookMinPrice", "hookToken", "hookChain", "hookActivation",
   "hookOffer"}

HookOps == HookOfferOps \cup {"hookOrder"}

NotFoundMsgs == {"No offer found", "Not found.", "No order found"}

\* Two identities are the same user: equal, letter case ignored.
SameUser(a, b) == LowerSeq(a) = LowerSeq(b)

HasId(coll, id) == \E i \in 1..Len(coll) : coll[i]._id = id

ById(coll, id) == coll[CHOOSE i \in 1..Len(coll) : coll[i]._id = id]

\* The collection without its i-th document.
Without(coll, i) == SubSeq(coll, 1, i - 1) \o SubSeq(coll, i + 1, Len(coll))

\* C1: after a POST /orders that is answered 404 'This order already
\* exists.', the orders collection holds exactly one document with the
\* orderId of the request: the refused request inserted nothing.
C1_DuplicateLeavesOneOrder ==
  (last.op = "postOrder" /\ last.msg = "This order already exists.")
    => Len(SelectSeq(orders, LAMBDA d : d.orderId = last.args.orderId)) = 1

\* C2: the document a POST /orders inserts has status PENDING, isComplete
\* false and the caller as userId, whatever status the body carried, and the
\* other fields of the body unchanged.
C2_CreatedDocument ==
  (last.op = "postOrder" /\ last.calls = <<"findOne", "insertOne">>)
    => /\ orders # <<>>
       /\ LET d == orders[Len(orders)]
          IN  /\ d.status = PENDING
              /\ d.isComplete = FALSE
              /\ d.userId = last.caller
              /\ \A k \in CreateAllowed \ {"status"} : d[k] = last.args[k]

C2_Witness ==
  /\ last.op = "postOrder"
  /\ last.status = 200
  /\ last.args.status = "success"
  /\ last.caller = <<"a", "b">>
  /\ orders[Len(orders)].status = PENDING
  /\ orders[Len(orders)].userId = <<"a", "b">>

\* The validators of the route of the last request reported an error, and
\* the request was authenticated.
ValidatorReported ==
  /\ last.op # "none"
  /\ last.status # 403
  /\ \/ last.msg = "validation errors"
     \/ /\ last.op \in {"getOrdersUser", "getOrdersLiquidityProvider"}
        /\ last.args.bad

\* C3: an authenticated request whose validators report an error is
\* answered 400 and its handler issues no store call.
C3_ValidationGate ==
  ValidatorReported => (last.status = 400 /\ last.calls = <<>>)

\* C4: PUT /orders/complete changes an order only if its orderId is the
\* body's, its owner is the caller and its status was SUCCESS, and sets the
\* status to COMPLETION; in every other case the answer is 404 'No order
\* found' and the orders collection is unchanged.
C4_CompletionPrecondition ==
  [][last'.op = "putComplete" /\ last'.status \notin {400, 403}
       => \/ /\ last'.status = 404
             /\ last'.msg = "No order found"
             /\ orders' = orders
          \/ /\ last'.status = 200
             /\ \E i \in 1..Len(orders) :
                  /\ orders[i].orderId = last'.args.orderId
                  /\ SameUser(orders[i].userId, last'.caller)
                  /\ orders[i].status = SUCCESS
                  /\ orders'[i].status = COMPLETION
                  /\ \A j \in 1..Len(orders) : j # i => orders'[j] = orders[j]
                  /\ Len(orders') = Len(orders)]_vars

\* C5: a PUT /orders/complete that carries a completionHash for a SUCCESS
\* order of the caller passes the validators, succeeds and leaves the
\* supplied completionHash on the order.
C5_CompletionHashRecorded ==
  (/\ last.op = "putComplete"
   /\ last.status # 403
   /\ last.args.completionHash # Absent
   /\ \/ last.status = 200
      \/ \E i \in 1..Len(orders) :
           CompleteFilter(last.caller, last.args, orders[i]))
    => /\ last.status = 200
       /\ ById(orders, last.found).completionHash = last.args.completionHash

\* The changes of an order's status that the state machine allows.
LegalStatusChanges ==
  {<<PENDING, SUCCESS>>, <<SUCCESS, COMPLETION>>, <<PENDING, FAILURE>>,
   <<SUCCESS, COMPLETION_FAILURE>>}

\* C6: every change of the status of a stored order is a change of the
\* state machine; an order in COMPLETION never goes back to SUCCESS.
C6_StatusStateMachine ==
  [][\A i \in 1..Len(orders), j \in 1..Len(orders') :
       (orders[i]._id = orders'[j]._id /\ orders[i].status # orders'[j].status)
         => <<orders[i].status, orders'[j].status>> \in LegalStatusChanges]_vars

\* The last request was a PUT /webhook/order that passed the API key and the
\* validators and whose lookup by hash found an order.
HookOrderFound ==
  last.op = "hookOrder" /\ last.status = 200 /\ last.found # 0

\* The same PUT /webhook/order is issued a second time right after the first.
HookOrderRepeated ==
  /\ HookOrderFound
  /\ HookOrderFound'
  /\ last'.args = last.args

C8_NotFoundReturns ==
  (last.op \in HookOps /\ last.msg \in NotFoundMsgs)
    => /\ last.calls = <<"findOne">>
       /\ ~last.threw
       /\ last.notified = 0

\* The method and the id of the notification of a webhook request.
MethodOf(op) ==
  CASE op = "hookMaxPrice" -> "maxPrice"
    [] op = "hookMinPrice" -> "minPrice"
    [] op = "hookToken" -> "token"
    [] op = "hookChain" -> "chain"
    [] op = "hookActivation" -> "status"
    [] op \in {"hookOffer", "hookOrder"} -> "success"

EventOf(l) ==
  [method |-> MethodOf(l.op),
   params |-> [type |-> IF l.op = "hookOrder" THEN "order" ELSE "offer",
               id |-> IF l.op = "hookOrder" THEN l.args.idTrade
                      ELSE l.args.idOffer]]

\* C9: a webhook request dispatches exactly one notification, {method,
\* params: {type, id}}, when it changed a stored document, and none when it
\* changed nothing.
C9_NotifiedIffModified ==
  [][last'.op \in HookOps
       => IF offers' # offers \/ orders' # orders
          THEN dispatched' = Append(dispatched, EventOf(last'))
          ELSE dispatched' = dispatched]_vars

\* An omitted value fell back to the stored one: nothing changed and nothing
\* was dispatched, after an earlier webhook was notified.
C9_Witness ==
  /\ last.op = "hookMinPrice"
  /\ last.status = 200
  /\ last.found # 0
  /\ last.args.value = Absent
  /\ last.notified = 0
  /\ Len(dispatched) = 1
  /\ dispatched[1].method = "maxPrice"

\* C10: DELETE /orders/:orderId removes exactly one order, one with that
\* orderId whose owner is the caller; otherwise the answer is 404 'No order
\* found' and the orders collection is unchanged.
C10_OwnedDeletion ==
  [][last'.op = "deleteOrder" /\ last'.status \notin {400, 403}
       => \/ /\ last'.status = 404
             /\ last'.msg = "No order found"
             /\ orders' = orders
          \/ /\ last'.status = 200
             /\ \E i \in 1..Len(orders) :
                  /\ orders[i].orderId = last'.args.orderId
                  /\ SameUser(orders[i].userId, last'.caller)
                  /\ orders' = Without(orders, i)]_vars

\* The orders a list request returned, without the offers joined to them.
Returned == [k \in 1..Len(last.result.orders) |-> last.result.orders[k].order]

\* C11: every order GET /orders/user returns is owned by the caller, its
\* userId being equal to the caller's identity, letter case ignored.
C11_OrdersOfCallerOnly ==
  (last.op = "getOrdersUser" /\ last.status = 200)
    => \A k \in 1..Len(Returned) : SameUser(Returned[k].userId, last.caller)

\* The offers of a liquidity provider that the isActiveOffers parameter keeps.
OffersOfProvider(caller, isActiveOffers) ==
  {o \in Docs(offers) :
     /\ SameUser(o.userId, caller)
     /\ isActiveOffers = "true" => o.isActive = "#true"
     /\ isActiveOffers = "false" => o.isActive = "#false"}

\* A list request that asks for the whole list: no offset and no limit.
WholeList == last.args.offset = Absent /\ last.args.limit = Absent

\* C12: GET /orders/liquidity-provider returns exactly the orders whose
\* offerId is the offerId of an offer owned by the caller, the offers being
\* restricted by isActiveOffers when it is given.
C12_OrdersOfProviderOffers ==
  (last.op = "getOrdersLiquidityProvider" /\ last.status = 200 /\ WholeList)
    => {Returned[k] : k \in 1..Len(Returned)}
         = {d \in Docs(orders) :
              \E o \in OffersOfProvider(last.caller, last.args.isActiveOffers) :
                d.offerId = o.offerId}

\* C13: every order GET /orders/liquidity-provider returns references an
\* offer whose isActive is true, whether isActiveOffers is given or not.
C13_ActiveOffersOnly ==
  (last.op = "getOrdersLiquidityProvider" /\ last.status = 200)
    => \A k \in 1..Len(Returned) :
         \E o \in Docs(offers) :
           o.offerId = Returned[k].offerId /\ o.isActive = "#true"

ListOps == {"getOrdersUser", "getOrdersLiquidityProvider"}

\* M: the orders the query of the last list request matches.
Matching ==
  IF last.op = "getOrdersUser"
  THEN {d \in Docs(orders) : UserQuery(last.caller, d)}
  ELSE {d \in Docs(orders) :
          \E o \in Docs(offers) :
            /\ ActiveOffersFilter(last.caller, last.args.isActiveOffers, o)
            /\ d.offerId = o.offerId}

\* The place of an order of M in M sorted by date, newest first, from 0.
Rank(d) == Cardinality({e \in Matching : e.date > d.date})

\* C14: a list request returns, in the order of M sorted by date descending,
\* the orders of M at the places offset .. offset + limit - 1 when limit > 0
\* and all those from offset on when limit is absent or 0; totalCount is the
\* size of M, so no more than totalCount orders are returned.
C14_Pagination ==
  (last.op \in ListOps /\ last.status = 200)
    => LET off == PageNumber(last.args.offset)
           lim == PageNumber(last.args.limit)
           want == {d \in Matching :
                      Rank(d) >= off /\ (lim > 0 => Rank(d) < off + lim)}
       IN  /\ Len(Returned) = Cardinality(want)
           /\ \A k \in 1..Len(Returned) :
                Returned[k] \in Matching /\ Rank(Returned[k]) = off + k - 1
           /\ last.result.totalCount = Cardinality(Matching)
           /\ Len(Returned) <= last.result.totalCount

\* A page of one order was cut out of two matching orders: the older one.
C14_Witness ==
  /\ last.op = "getOrdersUser"
  /\ last.args.offset = "1"
  /\ last.args.limit = "1"
  /\ last.result.totalCount = 2
  /\ Len(Returned) = 1
  /\ Returned[1]._id = 1

\* C15: a request without a bearer token (orders) or without a valid API key
\* (webhook) is answered 403, changes no collection and dispatches nothing,
\* also when its body, query or params would fail validation.
C15_AuthenticationGate ==
  [][(last'.op # "none" /\ ~last'.auth)
       => /\ last'.status = 403
          /\ orders' = orders
          /\ offers' = offers
          /\ dispatched' = dispatched]_vars

\* Refused with 403: a POST /orders without token whose body the validator
\* rejects, after an order was stored.
C15_Witness ==
  /\ last.op = "postOrder"
  /\ ~last.auth
  /\ last.args.destAddr = ""
  /\ last.status = 403
  /\ Len(orders) = 1

PointOps == {"getOrderByOrderId", "getOrderById"}

\* The orders the caller of the answered point lookup owns that carry the
\* orderId, or the internal id, the lookup asked for.
OwnAsked(l) ==
  {d \in Docs(orders) :
     /\ SameUser(d.userId, l.caller)
     /\ IF l.op = "getOrderByOrderId" THEN d.orderId = l.args.orderId
        ELSE d._id = l.args.id}

\* C16: a point lookup that passes the gates is answered 200, with an order
\* the caller owns under the id asked for when there is one and with an empty
\* object otherwise, and leaves the collections as they were.
C16_PointLookup ==
  [][(last'.op \in PointOps /\ last'.status \notin {400, 403})
       => /\ last'.status = 200
          /\ orders' = orders
          /\ offers' = offers
          /\ IF OwnAsked(last') = {} THEN last'.result.orders = <<>>
             ELSE /\ Len(last'.result.orders) = 1
                  /\ last'.result.orders[1].order \in OwnAsked(last')]_vars

\* Both processes served a POST /orders.
BothPosted == \A p \in Procs : inflight[p].op = "postOrder"

\* C17: two POST /orders with the same non-empty orderId whose findOne both
\* answered null, neither insert having happened yet, both insert: once they
\* are done the collection holds two orders with that orderId and both were
\* answered 200, neither with 'This order already exists.'.
C17_CreationRace ==
  (/\ BothPosted
   /\ inflight[1].args.orderId = inflight[2].args.orderId
   /\ inflight[1].args.orderId # ""
   /\ \A p \in Procs : inflight[p].found = 0 /\ inflight[p].pc = "done")
    => /\ Cardinality({d \in Docs(orders) :
                         d.orderId = inflight[1].args.orderId}) = 2
       /\ \A p \in Procs : inflight[p].status = 200 /\ ~inflight[p].threw

\* The race happened: two orders share the orderId 'X' and both requests
\* were answered 200.
C17_Witness ==
  /\ BothPosted
  /\ \A p \in Procs :
       /\ inflight[p].pc = "done"
       /\ inflight[p].status = 200
       /\ inflight[p].args.orderId = "X"
  /\ Len(orders) = 2
  /\ orders[1].orderId = "X"
  /\ orders[2].orderId = "X"

\* C18: two concurrent webhooks that set different fields of the same offer,
\* both having found it: once both are done the stored offer carries the
\* value of each (an omitted value leaving the field as it was).
C18_BothValuesStored ==
  (/\ \A p \in Procs :
        /\ inflight[p].op \in {"hookMaxPrice", "hookMinPrice"}
        /\ inflight[p].pc = "done"
        /\ inflight[p].found # 0
   /\ inflight[1].op # inflight[2].op
   /\ inflight[1].found = inflight[2].found)
    => \A p \in Procs :
         inflight[p].args.value # Absent
           => ById(offers, inflight[p].found)[HookField(inflight[p].op).field]
                = inflight[p].args.value

\* The rules of each route's validator, as the validator source lists them.
Rule(loc, param, kind, msg) ==
  [location |-> loc, param |-> param, kind |-> kind, msg |-> msg,
   allowed |-> {}]

AllowRule(loc, allowed) ==
  [location |-> loc, param |-> "", kind |-> "allow", msg |-> <<>>,
   allowed |-> allowed]

StringRules(loc, param) ==
  <<Rule(loc, param, "isString", <<"must be string value">>),
    Rule(loc, param, "notEmpty", <<"must not be empty">>)>>

RulesOf(route) ==
  CASE route = "postOrder" ->
         <<Rule("body", "status", "matches",
                <<"must be one of \"pending\", \"success\" or \"failure\"">>),
           Rule("body", "orderId", "isString", <<"must be string value">>)>>
         \o StringRules("body", "amountTokenDeposit")
         \o StringRules("body", "addressTokenDeposit")
         \o StringRules("body", "chainIdTokenDeposit")
         \o StringRules("body", "destAddr")
         \o StringRules("body", "amountTokenOffer")
         \o StringRules("body", "offerId")
         \o StringRules("body", "hash")
         \o <<AllowRule("body",
                        {"status", "orderId", "amountTokenDeposit",
                         "addressTokenDeposit", "chainIdTokenDeposit",
                         "destAddr", "amountTokenOffer", "offerId", "hash"}),
              AllowRule("query", {}), AllowRule("params", {})>>
    [] route = "putComplete" ->
         StringRules("body", "orderId")
         \o <<AllowRule("body", {"orderId"}),
              AllowRule("query", {}), AllowRule("params", {})>>
    [] route = "deleteOrder" -> StringRules("params", "orderId")
    [] route = "getOrderByOrderId" -> StringRules("query", "orderId")
    [] route = "getOrderById" ->
         <<Rule("query", "id", "isMongoId", <<"must be mongodb id">>)>>

\* The keys the request carries in a section, in the order it carries them.
\* The routes that have allow-lists have no route parameter.
SectionKeys(req, loc) ==
  CASE loc = "body" ->
         SelectSeq(IF req.route = "postOrder" THEN CreateBodyKeys
                   ELSE <<"orderId", "completionHash">>,
                   LAMBDA k : req.body[k] # Absent)
    [] loc = "query" -> req.qkeys
    [] loc = "params" -> <<>>

Unexpected(req, rule) ==
  SelectSeq(SectionKeys(req, rule.location), LAMBDA k : k \notin rule.allowed)

FieldValue(req, rule) ==
  IF req.route \in {"postOrder", "putComplete"} THEN req.body[rule.param]
  ELSE IF req.route = "getOrderById" THEN req.id
  ELSE req.orderId

Violated(req, rule) ==
  CASE rule.kind = "matches" ->
         FieldValue(req, rule) \notin {"pending", "success", "failure"}
    [] rule.kind = "isString" ->
         FieldValue(req, rule) \in {Absent, Null, NumVal}
    [] rule.kind = "notEmpty" ->
         FieldValue(req, rule) \in {Absent, Null, ""}
    [] rule.kind = "isMongoId" -> FieldValue(req, rule) = 0
    [] rule.kind = "allow" -> Unexpected(req, rule) # <<>>

EntryFor(rule, e) ==
  /\ e.location = rule.location
  /\ e.param = rule.param
  /\ rule.kind # "allow" => e.msg = rule.msg

IsAllowListError(e) ==
  /\ Len(e.msg) >= 1
  /\ e.msg[1] = "The following fields are not allowed in "

AllowListErrors(errs, section) ==
  {j \in 1..Len(errs) :
     IsAllowListError(errs[j]) /\ errs[j].location = section}

\* msg is 'The following fields are not allowed in {section}: ' followed by
\* the keys with ', ' between each two.
ListsKeys(msg, section, keys) ==
  /\ Len(msg) = 2 + 2 * Len(keys)
  /\ msg[2] = section
  /\ msg[3] = ": "
  /\ \A k \in 1..Len(keys) :
       /\ msg[2 + 2 * k] = keys[k]
       /\ k < Len(keys) => msg[3 + 2 * k] = ", "

\* C20: on a route with allow-lists, each section whose keys are not all in
\* its allow-list gets exactly one allow-list error, located at that section
\* and listing the unexpected keys comma-joined; a section with no
\* unexpected key gets none.
C20_AllowListPerSection ==
  (last.op = "validated" /\ last.req.route \in {"postOrder", "putComplete"})
    => LET rules == RulesOf(last.req.route)
       IN  \A i \in 1..Len(rules) :
             rules[i].kind = "allow" =>
               LET extra == Unexpected(last.req, rules[i])
                   hits == AllowListErrors(last.errors, rules[i].location)
               IN  IF extra = <<>> THEN hits = {}
                   ELSE /\ Cardinality(hits) = 1
                        /\ \A j \in hits :
                             ListsKeys(last.errors[j].msg,
                                       rules[i].location, extra)

\* A creation request with two unexpected body fields and two unexpected
\* query fields got exactly two allow-list errors, one for each section.
C20_Witness ==
  /\ last.op = "validated"
  /\ last.req.route = "postOrder"
  /\ last.req.body.foo = "f"
  /\ last.req.body.userId = "ab"
  /\ last.req.qkeys = <<"bar", "baz">>
  /\ Cardinality(AllowListErrors(last.errors, "body")) = 1
  /\ Cardinality(AllowListErrors(last.errors, "query")) = 1
  /\ AllowListErrors(last.errors, "params") = {}
  /\ \E j \in 1..Len(last.errors) :
       last.errors[j].msg =
         <<"The following fields are not allowed in ", "body", ": ",
           "userId", ", ", "foo">>

\* The violated rules of the request, in the order the validator declares them.
ViolatedRules(req) ==
  SelectSeq(RulesOf(req.route), LAMBDA r : Violated(req, r))

SectionRank(loc) ==
  CASE loc = "body" -> 1 [] loc = "query" -> 2 [] loc = "params" -> 3

EightFields ==
  {"orderId", "amountTokenDeposit", "addressTokenDeposit",
   "chainIdTokenDeposit", "destAddr", "amountTokenOffer", "offerId", "hash"}

\* The body holds the eight fields as non-empty strings except that field f
\* holds v, and no field beyond them other than a status.
SingleDefect(body, f, v) ==
  /\ body[f] = v
  /\ \A g \in EightFields \ {f} : IsString(body[g]) /\ body[g] # ""
  /\ body.userId = Absent
  /\ body.foo = Absent

\* POST /orders was answered 400 with the one error e and stored nothing.
OneError(param, msg) ==
  /\ last.status = 400
  /\ Len(last.errors) = 1
  /\ last.errors[1].param = param
  /\ last.errors[1].msg = msg
  /\ last.calls = <<>>

\* C22: a POST /orders whose body has a single defect in field F, a number
\* or the empty string, is answered 400 with exactly one error, naming F
\* with 'must be string value' or 'must not be empty', and inserts nothing.
C22_SingleDefectSingleError ==
  (last.op = "postOrder" /\ last.auth) =>
    \A f \in EightFields :
      /\ SingleDefect(last.args, f, NumVal)
           => OneError(f, <<"must be string value">>)
      /\ SingleDefect(last.args, f, "")
           => OneError(f, <<"must not be empty">>)

UniqueOrderIds(coll) ==
  \A i, j \in 1..Len(coll) :
    (coll[i].orderId = coll[j].orderId /\ coll[i].orderId # "") => i = j

\* C24: a PUT /webhook/order never makes two stored orders share a non-empty
\* orderId: when the _idTrade of the request is the orderId of another order
\* already, the webhook does not assign it.
C24_HookOrderKeepsOrderIdUnique ==
  [][(last'.op = "hookOrder" /\ UniqueOrderIds(orders))
       => UniqueOrderIds(orders')]_vars

\* The fields each offer webhook is to set.
Designated(op) ==
  CASE op = "hookMaxPrice" -> {"max"}
    [] op = "hookMinPrice" -> {"min"}
    [] op = "hookToken" -> {"tokenAddress"}
    [] op = "hookChain" -> {"chainId"}
    [] op = "hookActivation" -> {"isActive"}
    [] op = "hookOffer" -> {"offerId", "status"}

OfferFields ==
  {"_id", "offerId", "userId", "hash", "min", "max", "tokenAddress",
   "chainId", "isActive", "status"}

\* The offer the lookup of the webhook request l returns: the first one with
\* its hash (PUT /webhook/offer) or with its offerId (the other five).
MatchedOffer(coll, l) ==
  IF l.op = "hookOffer"
  THEN findOne(coll, {d \in Docs(coll) : d.hash = l.args.hash})
  ELSE findOne(coll, {d \in Docs(coll) : d.offerId = l.args.idOffer})

C26_OneResponse ==
  last.op # "none" => last.sends = 1

\* C27: every stored order has isComplete = false, also after a PUT
\* /orders/complete set its status to COMPLETION: nothing writes isComplete
\* after the creation.
C27_IsCompleteNeverRaised ==
  \A i \in 1..Len(orders) : orders[i].isComplete = FALSE

\* A PUT /orders/complete was answered 200 and the order it completed has
\* status COMPLETION and isComplete false.
C27_Witness ==
  /\ last.op = "putComplete"
  /\ last.status = 200
  /\ last.found # 0
  /\ HasId(orders, last.found)
  /\ ById(orders, last.found).status = COMPLETION
  /\ ById(orders, last.found).isComplete = FALSE

\* Both requests are PUT /orders/complete, both found the same order, and
\* both are done.
BothCompleted ==
  /\ \A p \in Procs :
       /\ inflight[p].op = "putComplete"
       /\ inflight[p].pc = "done"
       /\ inflight[p].found # 0
  /\ inflight[1].found = inflight[2].found

C29_FailureUnreachable ==
  \A i \in 1..Len(orders) :
    orders[i].status \in {PENDING, SUCCESS, COMPLETION}

\* A POST /orders whose body asked for the status 'failure' was answered 200
\* and the order it stored is pending, next to an order that went through
\* success to completion.
C29_Witness ==
  /\ last.op = "postOrder"
  /\ last.status = 200
  /\ last.args.status = FAILURE
  /\ orders[Len(orders)].status = PENDING
  /\ \E i \in 1..Len(orders) : orders[i].status = COMPLETION

\* The operation of the request that took the step: the one whose handler
\* moved, or the one answered when no handler was suspended.
StepOp ==
  IF inflight' = inflight THEN last'.op
  ELSE inflight'[CHOOSE p \in Procs : inflight'[p] # inflight[p]].op

\* The number of documents of the collection that the step changed in place.
Rewritten(before, after) ==
  Cardinality({i \in 1..Len(before) : after[i] # before[i]})

\* C30: a step of a webhook or of a PUT /orders/complete rewrites at most
\* one stored document and neither adds nor removes one, so it does not
\* re-create an order deleted meanwhile; the number of orders changes only by
\* +1 in a POST /orders and by -1 in a DELETE /orders/:orderId, and the
\* number of offers never.
C30_AtMostOneDocumentNoInsert ==
  [][/\ Len(offers') = Len(offers)
     /\ Len(orders') > Len(orders)
          => /\ StepOp = "postOrder"
             /\ Len(orders') = Len(orders) + 1
             /\ SubSeq(orders', 1, Len(orders)) = orders
     /\ Len(orders') < Len(orders)
          => /\ StepOp = "deleteOrder"
             /\ Len(orders') = Len(orders) - 1
     /\ StepOp \in HookOps \cup {"putComplete"}
          => /\ Len(orders') = Len(orders)
             /\ Rewritten(orders, orders') + Rewritten(offers, offers') <= 1
             /\ \A i \in 1..Len(orders) : orders'[i]._id = orders[i]._id]_vars

\* An order was deleted while a webhook or a completion that had read it was
\* in progress: that request was answered 200, modified nothing, and the
\* order is not stored.
C30_Witness ==
  \E p, q \in Procs :
    /\ inflight[p].op = "deleteOrder"
    /\ inflight[p].pc = "done"
    /\ inflight[p].modified = 1
    /\ inflight[q].op \in {"putComplete", "hookOrder"}
    /\ inflight[q].pc = "done"
    /\ inflight[q].found = inflight[p].found
    /\ inflight[q].status = 200
    /\ inflight[q].modified = 0
    /\ ~HasId(orders, inflight[p].found)

====
